---- MODULE Spec2Model ----
(***************************************************************************)
(* Record management service (backend_api/src/api): the records table,     *)
(* the service layer (services.py) and the HTTP handlers (main.py).        *)
(*                                                                         *)
(* Spec     : every request runs to completion before the next starts.     *)
(* SpecConc : two workers handle create and update requests at once; each  *)
(*            request is split between its uniqueness query and its        *)
(*            commit, and the two workers' steps interleave.               *)
(*                                                                         *)
(* Request bodies are those that pass validation. The updated_at column    *)
(* is not part of the state: no property below reads it.                   *)
(***************************************************************************)
EXTENDS Integers, Sequences, FiniteSets, TLC

\* ------------------------------------------------------------------ bounds
MaxRecords == 2     \* rows the table may hold at once
MaxClock == 1       \* last second the server clock reaches
MaxId == 2          \* largest id the table assigns

\* ------------------------------------------------------------------ values
None == "None"          \* Python None / SQL NULL
Absent == "Absent"      \* a JSON field left out of the request body
Null == "null"          \* a JSON field given as null

Titles == {"A", "B"}
Descriptions == {"d"}
Statuses == {"active", "archived"}
Ids == 0..MaxId           \* path ids of requests; rowids start at 1
Filters == {None, "", "active", "archived"}
Workers == {1, 2}         \* threads of the server's pool handling requests at once

VARIABLES records,  \* the rows of table "records"
          now,      \* the database clock (func.now()), in seconds
          resp,     \* the response being returned, with the request it answers
          inflight  \* SpecConc: per worker, the request between its query and its commit

vars == <<records, now, resp, inflight>>

\* ----------------------------------------------------------------- schemas
RawCreateInputs ==
    [title: Titles, description: Descriptions \cup {Absent}, status: Statuses \cup {Absent}]

\* Only description is a column that null can clear: the bodies drawn give null
\* for it alone.
RawUpdateInputs ==
    [title: Titles \cup {Absent},
     description: Descriptions \cup {Absent, Null},
     status: Statuses \cup {Absent}]

\* An Optional[...] = Field(None) field: left out and null both read as None.
OptionalField(v) == IF v \in {Absent, Null} THEN None ELSE v

RecordCreate(raw) ==
    [title |-> raw.title,
     description |-> OptionalField(raw.description),
     status |-> IF raw.status = Absent THEN "active" ELSE raw.status]

RecordUpdate(raw) ==
    [title |-> OptionalField(raw.title),
     description |-> OptionalField(raw.description),
     status |-> OptionalField(raw.status)]

\* ------------------------------------------------------------------- table
IdsOf(rows) == {r.id : r \in rows}

Max(S) == CHOOSE x \in S : \A y \in S : y <= x

\* INTEGER PRIMARY KEY without AUTOINCREMENT: one more than the largest id in use.
NextId(rows) == IF rows = {} THEN 1 ELSE Max(IdsOf(rows)) + 1

\* The row with a given id, when there is one.
Has(rows, id) == \E r \in rows : r.id = id
Row(rows, id) == CHOOSE r \in rows : r.id = id

\* An Optional[Record] is a sequence of at most one row.
NoRecord == <<>>

\* db.get(Record, record_id)
get_record(rows, record_id) ==
    IF Has(rows, record_id) THEN <<Row(rows, record_id)>> ELSE NoRecord

\* ---------------------------------------------------------------- services
\* All orders of S in which created_at never increases (ORDER BY created_at DESC;
\* rows of the same second come in any order).
RECURSIVE SortedDesc(_)
SortedDesc(S) ==
    IF S = {} THEN {<<>>}
    ELSE UNION {{<<r>> \o tl : tl \in SortedDesc(S \ {r})} :
                r \in {x \in S : \A y \in S : y.created_at <= x.created_at}}

Selected(rows, status) ==
    IF status \notin {None, ""} THEN {r \in rows : r.status = status} ELSE rows

\* Mutation: ORDER BY created_at ascending.
list_records_Ascending(rows, status) ==
    {[i \in 1..Len(out) |-> out[Len(out) + 1 - i]] : out \in SortedDesc(Selected(rows, status))}

list_records(rows, status) == SortedDesc(Selected(rows, status))

\* Mutation: the query leaves out Record.status == "active".
CreateConflict_AnyStatus(rows, payload) ==
    /\ payload.status = "active"
    /\ \E r \in rows : r.title = payload.title

CreateConflict(rows, payload) ==
    /\ payload.status = "active"
    /\ \E r \in rows : r.title = payload.title /\ r.status = "active"

NewRecord(rows, payload, t) ==
    [id |-> NextId(rows),
     title |-> payload.title,
     description |-> payload.description,
     status |-> IF payload.status \in {None, ""} THEN "active" ELSE payload.status,
     created_at |-> t]

\* Mutation: the INSERT is conditional on the title still being free.
InsertRow_IfUnique(rows, payload, t) ==
    IF CreateConflict(rows, payload)
    THEN [code |-> 409, rows |-> rows, body |-> NoRecord]
    ELSE LET rec == NewRecord(rows, payload, t)
         IN [code |-> 201, rows |-> rows \cup {rec}, body |-> <<rec>>]

\* db.add(rec); db.commit(); db.refresh(rec)
InsertRow(rows, payload, t) ==
    LET rec == NewRecord(rows, payload, t)
    IN [code |-> 201, rows |-> rows \cup {rec}, body |-> <<rec>>]

\* Mutation: the new row is returned but never committed.
create_record_NoCommit(rows, payload, t) ==
    IF CreateConflict(rows, payload)
    THEN [code |-> 409, rows |-> rows, body |-> NoRecord]
    ELSE [code |-> 201, rows |-> rows, body |-> <<NewRecord(rows, payload, t)>>]

create_record(rows, payload, t) ==
    IF CreateConflict(rows, payload)
    THEN [code |-> 409, rows |-> rows, body |-> NoRecord]
    ELSE InsertRow(rows, payload, t)

EffectiveTitle(rec, changes) == IF changes.title # None THEN changes.title ELSE rec.title
EffectiveStatus(rec, changes) == IF changes.status # None THEN changes.status ELSE rec.status

\* Mutation: the rule is checked only when the title changes.
UpdateConflict_TitleChangeOnly(rows, rec, changes) ==
    /\ changes.title # None
    /\ EffectiveStatus(rec, changes) = "active"
    /\ \E r \in rows : /\ r.title = EffectiveTitle(rec, changes)
                       /\ r.status = "active"
                       /\ r.id # rec.id

\* Mutation: the query leaves out Record.id != rec.id.
UpdateConflict_NoSelfExclusion(rows, rec, changes) ==
    /\ EffectiveStatus(rec, changes) = "active"
    /\ \E r \in rows : /\ r.title = EffectiveTitle(rec, changes)
                       /\ r.status = "active"

UpdateConflict(rows, rec, changes) ==
    /\ EffectiveStatus(rec, changes) = "active"
    /\ \E r \in rows : /\ r.title = EffectiveTitle(rec, changes)
                       /\ r.status = "active"
                       /\ r.id # rec.id

\* Mutation: description is assigned whether or not it was given.
ApplyChanges_AssignDescription(rec, changes) ==
    [rec EXCEPT !.title = IF changes.title # None THEN changes.title ELSE @,
                !.description = changes.description,
                !.status = IF changes.status # None THEN changes.status ELSE @]

ApplyChanges(rec, changes) ==
    [rec EXCEPT !.title = IF changes.title # None THEN changes.title ELSE @,
                !.description = IF changes.description # None THEN changes.description ELSE @,
                !.status = IF changes.status # None THEN changes.status ELSE @]

\* The columns of the session's object that differ from the row as loaded (Clean:
\* not modified). The flush writes these columns and no other.
Clean == "clean"

Dirty(rec, upd) ==
    [title |-> IF upd.title # rec.title THEN upd.title ELSE Clean,
     description |-> IF upd.description # rec.description THEN upd.description ELSE Clean,
     status |-> IF upd.status # rec.status THEN upd.status ELSE Clean]

\* db.add(rec); db.commit(); db.refresh(rec): UPDATE ... WHERE id = record_id. A row
\* deleted since it was loaded fails the UPDATE (or the refresh): an unhandled
\* error, answered 500.
UpdateRow(rows, record_id, dirty) ==
    IF ~Has(rows, record_id) THEN [code |-> 500, rows |-> rows, body |-> NoRecord]
    ELSE LET cur == Row(rows, record_id)
             new == [cur EXCEPT !.title = IF dirty.title # Clean THEN dirty.title ELSE @,
                                !.description = IF dirty.description # Clean
                                                THEN dirty.description ELSE @,
                                !.status = IF dirty.status # Clean THEN dirty.status ELSE @]
         IN [code |-> 200, rows |-> (rows \ {cur}) \cup {new}, body |-> <<new>>]

\* Mutation: the changes are written before the uniqueness query.
update_record_WriteFirst(rows, record_id, changes) ==
    LET found == get_record(rows, record_id)
    IN IF found = NoRecord THEN [code |-> 404, rows |-> rows, body |-> NoRecord]
       ELSE LET w == UpdateRow(rows, record_id,
                               Dirty(found[1], ApplyChanges(found[1], changes)))
            IN IF UpdateConflict(rows, found[1], changes)
               THEN [code |-> 409, rows |-> w.rows, body |-> NoRecord]
               ELSE w

update_record(rows, record_id, changes) ==
    LET found == get_record(rows, record_id)
    IN IF found = NoRecord THEN [code |-> 404, rows |-> rows, body |-> NoRecord]
       ELSE IF UpdateConflict(rows, found[1], changes)
            THEN [code |-> 409, rows |-> rows, body |-> NoRecord]
            ELSE UpdateRow(rows, record_id,
                           Dirty(found[1], ApplyChanges(found[1], changes)))

\* Mutation: deleting an absent id reports success.
delete_record_AlwaysDeleted(rows, record_id) ==
    LET found == get_record(rows, record_id)
    IN IF found = NoRecord THEN [code |-> 204, rows |-> rows, body |-> NoRecord]
       ELSE [code |-> 204, rows |-> rows \ {found[1]}, body |-> NoRecord]

delete_record(rows, record_id) ==
    LET found == get_record(rows, record_id)
    IN IF found = NoRecord THEN [code |-> 404, rows |-> rows, body |-> NoRecord]
       ELSE [code |-> 204, rows |-> rows \ {found[1]}, body |-> NoRecord]

\* ---------------------------------------------------------------- requests
\* What a worker holds between its query and its commit: the kind of request,
\* the row's id, the columns to write, and, once answered, the status code.
Slot(kind, id, payload, code) == [kind |-> kind, id |-> id, payload |-> payload, code |-> code]

NoPayload == [title |-> None, description |-> None, status |-> None]

Idle == Slot("idle", 0, NoPayload, 0)
Answered(code) == Slot("answered", 0, NoPayload, code)

\* A request body with every field left out.
NoInput == [title |-> Absent, description |-> Absent, status |-> Absent]

\* A request and its answer: the operation, its path id (0: none), its status
\* filter, its body, the status code and the rows returned, in order.
Response(op, id, filter, input, code, body) ==
    [op |-> op, id |-> id, filter |-> filter, input |-> input, code |-> code, body |-> body]

NoResponse == Response("none", 0, None, NoInput, 0, NoRecord)

Init ==
    /\ records = {}
    /\ now = 0
    /\ resp = NoResponse
    /\ inflight = [w \in Workers |-> Idle]

Tick ==
    /\ now < MaxClock
    /\ now' = now + 1
    /\ UNCHANGED <<records, resp, inflight>>

\* GET /records?status=
List(status) ==
    /\ resp = NoResponse
    /\ \E out \in list_records(records, status) :
          resp' = Response("list", 0, status, NoInput, 200, out)
    /\ UNCHANGED <<records, now, inflight>>

\* POST /records
Create(raw) ==
    LET r == create_record(records, RecordCreate(raw), now)
    IN /\ resp = NoResponse
       /\ r.code = 201 => Cardinality(records) < MaxRecords /\ NextId(records) <= MaxId
       /\ records' = r.rows
       /\ resp' = Response("create", 0, None, raw, r.code, r.body)
       /\ UNCHANGED <<now, inflight>>

\* GET /records/{record_id}
GetResponse(rows, record_id) ==
    LET found == get_record(rows, record_id)
    IN Response("get", record_id, None, NoInput, IF found = NoRecord THEN 404 ELSE 200, found)

Get(record_id) ==
    /\ resp = NoResponse
    /\ resp' = GetResponse(records, record_id)
    /\ UNCHANGED <<records, now, inflight>>

\* PUT /records/{record_id}
Update(record_id, raw) ==
    LET r == update_record(records, record_id, RecordUpdate(raw))
    IN /\ resp = NoResponse
       /\ records' = r.rows
       /\ resp' = Response("update", record_id, None, raw, r.code, r.body)
       /\ UNCHANGED <<now, inflight>>

\* DELETE /records/{record_id}
Delete(record_id) ==
    LET r == delete_record(records, record_id)
    IN /\ resp = NoResponse
       /\ records' = r.rows
       /\ resp' = Response("delete", record_id, None, NoInput, r.code, r.body)
       /\ UNCHANGED <<now, inflight>>

\* The response is sent and the request's session is closed; the next request
\* of a sequential client starts after it.
Close ==
    /\ resp # NoResponse
    /\ resp' = NoResponse
    /\ UNCHANGED <<records, now, inflight>>

Next ==
    \/ Tick
    \/ \E status \in Filters : List(status)
    \/ \E raw \in RawCreateInputs : Create(raw)
    \/ \E record_id \in Ids : Get(record_id)
    \/ \E record_id \in Ids, raw \in RawUpdateInputs : Update(record_id, raw)
    \/ \E record_id \in Ids : Delete(record_id)
    \/ Close

Spec == Init /\ [][Next]_vars

\* ------------------------------------------------- requests, two at a time
\* The bodies drawn for concurrent requests leave description out: it plays no
\* part in the uniqueness rule.
ConcCreateInputs == {raw \in RawCreateInputs : raw.description = Absent}
ConcUpdateInputs == {raw \in RawUpdateInputs : raw.description = Absent}

Creating == {w \in Workers : inflight[w].kind = "create"}

\* create_record up to its uniqueness query
QueryCreate(w, raw) ==
    LET payload == RecordCreate(raw)
    IN /\ inflight[w] = Idle
       /\ Cardinality(records) + Cardinality(Creating) < MaxRecords
       /\ inflight' = [inflight EXCEPT ![w] =
              IF CreateConflict(records, payload) THEN Answered(409)
              ELSE Slot("create", 0, payload, 0)]
       /\ UNCHANGED <<records, now, resp>>

\* create_record from Record(...) to its return
CommitCreate(w) ==
    LET r == InsertRow(records, inflight[w].payload, now)
    IN /\ inflight[w].kind = "create"
       /\ NextId(records) <= MaxId
       /\ records' = r.rows
       /\ inflight' = [inflight EXCEPT ![w] = Answered(r.code)]
       /\ UNCHANGED <<now, resp>>

\* update_record up to its uniqueness query
QueryUpdate(w, record_id, raw) ==
    LET found == get_record(records, record_id)
        changes == RecordUpdate(raw)
    IN /\ inflight[w] = Idle
       /\ inflight' = [inflight EXCEPT ![w] =
              IF found = NoRecord THEN Answered(404)
              ELSE IF UpdateConflict(records, found[1], changes) THEN Answered(409)
              ELSE Slot("update", record_id,
                        Dirty(found[1], ApplyChanges(found[1], changes)), 0)]
       /\ UNCHANGED <<records, now, resp>>

\* update_record from its assignments to its return
CommitUpdate(w) ==
    LET r == UpdateRow(records, inflight[w].id, inflight[w].payload)
    IN /\ inflight[w].kind = "update"
       /\ records' = r.rows
       /\ inflight' = [inflight EXCEPT ![w] = Answered(r.code)]
       /\ UNCHANGED <<now, resp>>

\* A delete request, whose DELETE commits in one step.
DeleteRow(record_id) ==
    /\ records' = delete_record(records, record_id).rows
    /\ records' # records
    /\ UNCHANGED <<now, resp, inflight>>

\* The worker's response is sent and its session closed.
Return(w) ==
    /\ inflight[w].kind = "answered"
    /\ inflight' = [inflight EXCEPT ![w] = Idle]
    /\ UNCHANGED <<records, now, resp>>

NextConc ==
    \/ Tick
    \/ \E w \in Workers, raw \in ConcCreateInputs : QueryCreate(w, raw)
    \/ \E w \in Workers : CommitCreate(w)
    \/ \E w \in Workers, record_id \in Ids, raw \in ConcUpdateInputs : QueryUpdate(w, record_id, raw)
    \/ \E w \in Workers : CommitUpdate(w)
    \/ \E record_id \in Ids : DeleteRow(record_id)
    \/ \E w \in Workers : Return(w)

SpecConc == Init /\ [][NextConc]_vars

\* A step in which a request is handled.
Handled == resp = NoResponse /\ resp' # NoResponse

ActiveDup(rows) ==
    \E r1, r2 \in rows : /\ r1.id # r2.id
                         /\ r1.title = r2.title
                         /\ r1.status = "active"
                         /\ r2.status = "active"

\* C1: with requests handled one at a time from an empty table, no two rows with
\* status "active" ever have the same title (rows of any other status may share
\* a title with any row).
C1_ActiveTitlesUnique == ~ActiveDup(records)

C1_Witness ==
    \E r1, r2 \in records : /\ r1.id # r2.id
                            /\ r1.title = r2.title
                            /\ r1.status = "active"
                            /\ r2.status # "active"

\* C2: with the uniqueness query and the write as separate steps of two workers,
\* a request that passed its query commits whatever the other worker has
\* committed since: a create always inserts its row (201), an update always
\* writes its columns to the row if the row is still there (200). So two
\* requests for the same active title that both passed the query both commit,
\* and a state with two active rows of one title is reached.
C2_CheckedWritesCommit ==
    [][\A w \in Workers :
        LET slot == inflight[w]
        IN /\ (slot.kind = "create" /\ inflight'[w] # slot) =>
                /\ inflight'[w].code = 201
                /\ \E r \in records' \ records :
                      /\ r.title = slot.payload.title
                      /\ r.status = slot.payload.status
                      /\ records' = records \cup {r}
           /\ (slot.kind = "update" /\ inflight'[w] # slot /\ Has(records, slot.id)) =>
                /\ inflight'[w].code = 200
                /\ Has(records', slot.id)
                /\ slot.payload.title # Clean => Row(records', slot.id).title = slot.payload.title
                /\ slot.payload.status # Clean => Row(records', slot.id).status = slot.payload.status
                /\ {r \in records' : r.id # slot.id} = {r \in records : r.id # slot.id}]_vars

C2_Witness ==
    /\ ActiveDup(records)
    /\ \A w \in Workers : inflight[w].kind = "answered" /\ inflight[w].code \in {200, 201}

\* C3: a create is answered 409 exactly when its status (active when left out)
\* is active and a stored row has the same title and status active; in every
\* other case it is answered 201 and adds one row whose id no stored row had.
C3_CreateOutcome ==
    [][Handled /\ resp'.op = "create" =>
        LET in == resp'.input
            status == IF in.status = Absent THEN "active" ELSE in.status
            taken == \E r \in records : r.title = in.title /\ r.status = "active"
        IN /\ resp'.code = 409 <=> (status = "active" /\ taken)
           /\ resp'.code # 409 =>
                /\ resp'.code = 201
                /\ Len(resp'.body) = 1
                /\ resp'.body[1].id \notin IdsOf(records)
                /\ resp'.body[1].title = in.title
                /\ resp'.body[1].status = status
                /\ records' = records \cup {resp'.body[1]}
                /\ Cardinality(records') = Cardinality(records) + 1]_vars

C3_Witness ==
    /\ resp.op = "create"
    /\ resp.code = 201
    /\ resp.input.status = "active"
    /\ \E r \in records : /\ r.id # resp.body[1].id
                          /\ r.title = resp.input.title
                          /\ r.status = "archived"

\* C4: an update of an id no row has is answered 404 whatever its body; otherwise
\* it is answered 409 exactly when the effective status (the one given, else the
\* stored one) is active and a row with another id is active with the effective
\* title; otherwise 200.
C4_UpdateOutcome ==
    [][Handled /\ resp'.op = "update" =>
        LET in == resp'.input
            id == resp'.id
        IN IF ~Has(records, id) THEN resp'.code = 404
           ELSE LET old == Row(records, id)
                    title == IF in.title \in Titles THEN in.title ELSE old.title
                    status == IF in.status \in Statuses THEN in.status ELSE old.status
                    clash == /\ status = "active"
                             /\ \E r \in records : /\ r.id # id
                                                   /\ r.status = "active"
                                                   /\ r.title = title
                IN resp'.code = IF clash THEN 409 ELSE 200]_vars

C4_Witness ==
    /\ resp.op = "update"
    /\ resp.code = 409
    /\ resp.input.title = Absent
    /\ resp.input.status = "active"
    /\ Has(records, resp.id)
    /\ Row(records, resp.id).status = "archived"

\* C5: a request answered 404 or 409 leaves every stored row as it was.
C5_FailureChangesNothing ==
    [][Handled /\ resp'.code \in {404, 409} => records' = records]_vars

C5_Witness ==
    /\ resp.op = "update"
    /\ resp.code = 409
    /\ resp.input.title \in Titles
    /\ Has(records, resp.id)
    /\ Row(records, resp.id).title # resp.input.title

\* C6: a delete of a stored id removes that row alone and is answered 204, after
\* which a delete or a get of the same id is answered 404 for as long as no
\* create runs; a delete of an absent id is answered 404.
C6_Delete ==
    [][/\ Handled /\ resp'.op = "delete" =>
            IF Has(records, resp'.id)
            THEN /\ resp'.code = 204
                 /\ records' = records \ {Row(records, resp'.id)}
                 /\ Cardinality(records') = Cardinality(records) - 1
                 /\ delete_record(records', resp'.id).code = 404
                 /\ GetResponse(records', resp'.id).code = 404
            ELSE /\ resp'.code = 404
                 /\ records' = records
       /\ ~(Handled /\ resp'.op = "create") => IdsOf(records') \subseteq IdsOf(records)]_vars

C6_Witness ==
    /\ resp.op = "delete"
    /\ resp.code = 204
    /\ records # {}
    /\ ~Has(records, resp.id)

\* C7: a list with a non-empty filter returns exactly the stored rows of that
\* status, each once; with no filter or an empty one, all rows; in both cases by
\* created_at, newest first; and it changes no row.
C7_List ==
    [][Handled /\ resp'.op = "list" =>
        LET out == resp'.body
            f == resp'.filter
            expected == IF f \in {None, ""} THEN records ELSE {r \in records : r.status = f}
        IN /\ resp'.code = 200
           /\ records' = records
           /\ {out[i] : i \in 1..Len(out)} = expected
           /\ Len(out) = Cardinality(expected)
           /\ \A i, j \in 1..Len(out) : i < j => out[i].created_at >= out[j].created_at]_vars

C7_Witness ==
    /\ resp.op = "list"
    /\ resp.filter = "active"
    /\ Len(resp.body) = 2
    /\ resp.body[1].created_at > resp.body[2].created_at

\* C8: after a create answered 201, a get of the returned id is answered 200
\* with a row equal to the created one in id, title, description, status and
\* created_at; the status is active when the body left it out.
C8_CreateThenGet ==
    (resp.op = "create" /\ resp.code = 201) =>
        LET rec == resp.body[1]
            got == GetResponse(records, rec.id)
        IN /\ got.code = 200
           /\ got.body = <<rec>>
           /\ rec.title = resp.input.title
           /\ rec.description = OptionalField(resp.input.description)
           /\ resp.input.status = Absent => rec.status = "active"
           /\ resp.input.status # Absent => rec.status = resp.input.status

C8_Witness ==
    /\ resp.op = "create"
    /\ resp.code = 201
    /\ resp.input.status = Absent
    /\ resp.input.description \in Descriptions
    /\ resp.body[1].created_at > 0

\* C9: an update answered 200 changes the row of its id alone, and of title,
\* description and status only those its body gives; no update changes a row's
\* id or created_at.
C9_UpdateFrame ==
    [][Handled /\ resp'.op = "update" =>
        /\ \A r \in records : \E r2 \in records' : r2.id = r.id /\ r2.created_at = r.created_at
        /\ IdsOf(records') = IdsOf(records)
        /\ resp'.code = 200 =>
             LET in == resp'.input
                 old == Row(records, resp'.id)
                 new == Row(records', resp'.id)
             IN /\ Has(records, resp'.id)
                /\ in.title = Absent => new.title = old.title
                /\ in.description = Absent => new.description = old.description
                /\ in.status = Absent => new.status = old.status
                /\ records' \ {new} = records \ {old}
                /\ Cardinality(records') = Cardinality(records)]_vars

C9_Witness ==
    /\ resp.op = "update"
    /\ resp.code = 200
    /\ resp.input.description = Absent
    /\ resp.input.title = Absent
    /\ resp.input.status = "archived"
    /\ resp.body[1].description \in Descriptions
    /\ resp.body[1].created_at < now
    /\ Cardinality(records) = 2

\* C10: an update answered 200 whose body gives description as null stores a
\* null description, and one whose body leaves description out keeps the stored
\* description.
C10_NullClearsDescription ==
    [][Handled /\ resp'.op = "update" /\ resp'.code = 200 =>
        LET in == resp'.input
            old == Row(records, resp'.id)
            new == Row(records', resp'.id)
        IN /\ in.description = Null => new.description = None
           /\ in.description = Absent => new.description = old.description]_vars

====
